---- MODULE Spec2Model ----
(***************************************************************************)
(* Model of src/dataset.py: the spherical grid generator genuv, the        *)
(* projector uv2img_idx and OmniDataset.__getitem__, which resamples a     *)
(* planar image with scipy's map_coordinates.                              *)
(*                                                                         *)
(* Numbers.  The code computes in IEEE binary floating point.  The model   *)
(* keeps the structure of that arithmetic (every operation of the code     *)
(* rounds its exact result to the nearest representable number, ties to    *)
(* even) with a narrower format: a significand of MantBits bits, a         *)
(* smallest spacing of 1/Unit and overflow to +-Big.  A float is held as   *)
(* the integer number of 1/Unit it is worth: 1.0 is Unit, 0.5 is Unit/2.   *)
(***************************************************************************)
EXTENDS Integers, Sequences, FiniteSets, TLC

(***************************************************************************)
(* Floating point                                                          *)
(***************************************************************************)
MantBits == 8
Unit == 1024
Big == 1048576

Abs(n) == IF n < 0 THEN -n ELSE n
Sgn(n) == IF n < 0 THEN -1 ELSE 1

\* overflow: a result beyond the largest number becomes +-Big (inf)
Sat(n) == IF n > Big THEN Big ELSE IF n < -Big THEN -Big ELSE n

\* the spacing of the floats around a/d: the least power of two ulp with
\* a/d < 2^MantBits * ulp, and never finer than 1/Unit
RECURSIVE UlpOf(_, _, _)
UlpOf(a, d, ulp) ==
    IF a \div (d * ulp) < 2^MantBits THEN ulp ELSE UlpOf(a, d, 2 * ulp)

\* a/d rounded to the nearest integer, ties to even (a >= 0, d > 0)
RoundDiv(a, d) ==
    LET q == a \div d
        r == a % d
    IN  IF 2 * r > d \/ (2 * r = d /\ q % 2 = 1) THEN q + 1 ELSE q

\* the float nearest to the exact value n/d (d > 0)
FlQ(n, d) ==
    LET a == Abs(n)
        ulp == UlpOf(a, d, 1)
    IN  Sat(Sgn(n) * RoundDiv(a, d * ulp) * ulp)

Fl(n) == FlQ(n, 1)

\* float + float, float * integer, float / integer, float / float
FAdd(a, b) == Fl(a + b)
FMulI(a, k) == Fl(a * k)
FDivI(a, k) == FlQ(a, k)
FDiv(a, b) ==
    IF b = 0 THEN (IF a >= 0 THEN Big ELSE -Big)
    ELSE FlQ(Sgn(b) * a * Unit, Abs(b))

\* np.pi: the float nearest to pi (pi * Unit = 3216.99)
PI == Fl(3217)

(***************************************************************************)
(* np.cos and np.tan: Taylor kernels of cos and sin on [0, pi/2] in fixed  *)
(* point with TS steps per 1.0, reduced by the symmetries about pi/2, then *)
(* rounded to a float.                                                     *)
(***************************************************************************)
TS == 16384
PiT == 51472

M(a, b) == (a * b) \div TS

CosK(x) ==
    LET x2 == M(x, x)
        t1 == TS - (M(x2, TS) \div 56)
        t2 == TS - (M(x2, t1) \div 30)
        t3 == TS - (M(x2, t2) \div 12)
    IN  TS - (M(x2, t3) \div 2)

SinK(x) ==
    LET x2 == M(x, x)
        t1 == TS - (M(x2, TS) \div 72)
        t2 == TS - (M(x2, t1) \div 42)
        t3 == TS - (M(x2, t2) \div 20)
        t4 == TS - (M(x2, t3) \div 6)
    IN  M(x, t4)

\* the argument a >= 0 (in 1/Unit) reduced to [0, 2 pi) in 1/TS
Reduce(a) == (a * (TS \div Unit)) % (2 * PiT)

CosT(a) ==
    LET x == Reduce(a)
        z == IF x <= PiT THEN x ELSE 2 * PiT - x
    IN  IF z <= PiT \div 2 THEN CosK(z) ELSE -CosK(PiT - z)

SinT(a) ==
    LET x == Reduce(a)
        z == IF x <= PiT THEN x ELSE 2 * PiT - x
        s == IF z <= PiT \div 2 THEN SinK(z) ELSE SinK(PiT - z)
    IN  IF x <= PiT THEN s ELSE -s

Cos(a) == FlQ(CosT(Abs(a)) * Unit, TS)

Tan(a) ==
    LET c == CosT(Abs(a))
        s == SinT(Abs(a))
    IN  IF c = 0 THEN Sgn(a) * Big
        ELSE FlQ(Sgn(a) * Sgn(c) * s * Unit, Abs(c))

(***************************************************************************)
(* genuv(h, w), lines 14-18.  np.arange(n) is 0..n-1, empty for n <= 0;    *)
(* np.meshgrid(arange(w), arange(h)) gives two h-by-w arrays, the first    *)
(* holding the column index and the second the row index.  An array is a   *)
(* function of the row index giving a function of the column index.        *)
(***************************************************************************)
arange(n) == 0 .. (n - 1)

\* variant: the two index arrays the other way round (indexing='ij')
meshgridIJ(xs, ys) ==
    [u |-> [i \in ys |-> [j \in xs |-> i]],
     v |-> [i \in ys |-> [j \in xs |-> j]]]

\* line 15: u[i][j] = j and v[i][j] = i
meshgrid(xs, ys) ==
    [u |-> [i \in ys |-> [j \in xs |-> j]],
     v |-> [i \in ys |-> [j \in xs |-> i]]]

\* line 16: (u + 0.5) * 2 * np.pi / w - np.pi; (u + 0.5) * 2 is the exact 2u+1
Longitude(u, w) == FAdd(FDivI(FMulI(PI, 2 * u + 1), w), -PI)

\* line 17: (v + 0.5) * np.pi / h - np.pi / 2; np.pi / 2 is exact
Latitude(v, h) == FAdd(FDivI(FlQ((2 * v + 1) * PI, 2), h), -(PI \div 2))

\* line 18: np.stack([u, v], axis=-1): each cell is the pair <<u, v>>
genuv(h, w) ==
    LET g == meshgrid(arange(w), arange(h))
    IN  [i \in arange(h) |->
            [j \in arange(w) |->
                <<Longitude(g.u[i][j], w), Latitude(g.v[i][j], h)>>]]

(***************************************************************************)
(* uv2img_idx(uv, h, w, u_fov, v_fov), lines 21-35.  The result is the     *)
(* frame of the call when it ends: what it raised, the array the argument  *)
(* uv refers to (numpy passes arrays by reference), the locals x and y,    *)
(* and the returned array.                                                 *)
(***************************************************************************)
None == "None"
Sentinel == -100 * Unit

\* variant: the upper comparison not strict
ValidFovLoose(fov) == 0 < fov /\ fov <= PI

\* lines 22, 23: the condition of each assert
ValidFov(fov) == 0 < fov /\ fov < PI

\* lines 25, 27: x = np.tan(u); x = x * w / (2 * np.tan(u_fov / 2)) + w / 2
\* (halving and doubling a float are exact: Tan takes u_fov \div 2 because
\* every field of view used is an even number of 1/Unit)
ProjX(u, w, u_fov) ==
    FAdd(FDiv(FMulI(Tan(u), w), 2 * Tan(u_fov \div 2)), (w * Unit) \div 2)

\* lines 26, 28: y = np.tan(v) / np.cos(u); y = y * h / (2 * np.tan(v_fov / 2)) + h / 2
ProjY(u, v, h, v_fov) ==
    FAdd(FDiv(FMulI(FDiv(Tan(v), Cos(u)), h), 2 * Tan(v_fov \div 2)),
         (h * Unit) \div 2)

\* variant: the comparisons not strict, so that the boundary is invalid
InvalidClosed(u, v, u_fov, v_fov) ==
    \/ 2 * u <= -u_fov
    \/ 2 * u >= u_fov
    \/ 2 * v <= -v_fov
    \/ 2 * v >= v_fov

\* lines 30, 31: u < -u_fov / 2 is 2u < -u_fov
Invalid(u, v, u_fov, v_fov) ==
    \/ 2 * u < -u_fov
    \/ 2 * u > u_fov
    \/ 2 * v < -v_fov
    \/ 2 * v > v_fov

\* lines 25-28: np.tan and the arithmetic allocate new arrays for x and y
Projection(uv, h, w, u_fov, v_fov) ==
    [uv |-> uv,
     x |-> [i \in DOMAIN uv |-> [j \in DOMAIN uv[i] |->
                ProjX(uv[i][j][1], w, u_fov)]],
     y |-> [i \in DOMAIN uv |-> [j \in DOMAIN uv[i] |->
                ProjY(uv[i][j][1], uv[i][j][2], h, v_fov)]]]

\* variant: the masked assignment also reaches the grid, as it would if x
\* and y were views of uv
MaskInPlace(m, u_fov, v_fov) ==
    LET invalid == [i \in DOMAIN m.uv |-> [j \in DOMAIN m.uv[i] |->
                       Invalid(m.uv[i][j][1], m.uv[i][j][2], u_fov, v_fov)]]
    IN  [m EXCEPT
            !.x = [i \in DOMAIN @ |-> [j \in DOMAIN @[i] |->
                      IF invalid[i][j] THEN Sentinel ELSE @[i][j]]],
            !.y = [i \in DOMAIN @ |-> [j \in DOMAIN @[i] |->
                      IF invalid[i][j] THEN Sentinel ELSE @[i][j]]],
            !.uv = [i \in DOMAIN @ |-> [j \in DOMAIN @[i] |->
                      IF invalid[i][j] THEN <<Sentinel, Sentinel>> ELSE @[i][j]]]]

\* lines 30-33: x[invalid] = -100; y[invalid] = -100
Mask(m, u_fov, v_fov) ==
    LET invalid == [i \in DOMAIN m.uv |-> [j \in DOMAIN m.uv[i] |->
                       Invalid(m.uv[i][j][1], m.uv[i][j][2], u_fov, v_fov)]]
    IN  [m EXCEPT
            !.x = [i \in DOMAIN @ |-> [j \in DOMAIN @[i] |->
                      IF invalid[i][j] THEN Sentinel ELSE @[i][j]]],
            !.y = [i \in DOMAIN @ |-> [j \in DOMAIN @[i] |->
                      IF invalid[i][j] THEN Sentinel ELSE @[i][j]]]]

\* line 35: np.stack([y, x], axis=0): index 0 is the row coordinate y.
\* locals names the local arrays the call has assigned when it ends.
uv2img_idx(uv, h, w, u_fov, v_fov) ==
    IF ~ValidFov(u_fov) \/ ~ValidFov(v_fov)
    THEN [raised |-> "AssertionError", uv |-> uv, locals |-> {},
          x |-> <<>>, y |-> <<>>, ret |-> <<>>]
    ELSE LET m == Mask(Projection(uv, h, w, u_fov, v_fov), u_fov, v_fov)
         IN  [raised |-> None, uv |-> m.uv, locals |-> {"x", "y", "invalid"},
              x |-> m.x, y |-> m.y,
              ret |-> [k \in 0 .. 1 |-> IF k = 0 THEN m.y ELSE m.x]]

(***************************************************************************)
(* scipy.ndimage map_coordinates(input, coordinates, order=1), line 65,    *)
(* with its defaults mode='constant' and cval=0.0.  An image is a record   *)
(* [ndim, shape, data]; its pixels are whole numbers (a PIL image          *)
(* converted by np.array(..., np.float32), line 59).                       *)
(***************************************************************************)
\* the index scipy reads for a neighbour beyond the last row or column; its
\* weight is then zero
Mirror(i, n) == IF i <= n - 1 THEN i ELSE IF n = 1 THEN 0 ELSE 2 * (n - 1) - i

\* a coordinate outside [0, n - 1] takes the constant instead of being sampled
Outside(c, n) == c < 0 \/ c > (n - 1) * Unit

\* variant: the first weight forgets the column fraction
NeighboursSkewed(y, x, h, w) ==
    LET iy == y \div Unit
        fy == y % Unit
        ix == x \div Unit
        fx == x % Unit
    IN  << <<iy, ix, (Unit - fy) * Unit>>,
           <<iy, Mirror(ix + 1, w), (Unit - fy) * fx>>,
           <<Mirror(iy + 1, h), ix, fy * (Unit - fx)>>,
           <<Mirror(iy + 1, h), Mirror(ix + 1, w), fy * fx>> >>

\* the four neighbours of (y, x) with their weights, in 1/Unit each
Neighbours(y, x, h, w) ==
    LET iy == y \div Unit
        fy == y % Unit
        ix == x \div Unit
        fx == x % Unit
    IN  << <<iy, ix, (Unit - fy) * (Unit - fx)>>,
           <<iy, Mirror(ix + 1, w), (Unit - fy) * fx>>,
           <<Mirror(iy + 1, h), ix, fy * (Unit - fx)>>,
           <<Mirror(iy + 1, h), Mirror(ix + 1, w), fy * fx>> >>

\* the sum over the neighbours of weight * pixel
WeightedSum(ns, data) ==
    ns[1][3] * data[ns[1][1]][ns[1][2]] + ns[2][3] * data[ns[2][1]][ns[2][2]]
    + ns[3][3] * data[ns[3][1]][ns[3][2]] + ns[4][3] * data[ns[4][1]][ns[4][2]]

\* variant: mode='nearest', a coordinate outside is moved to the edge
Clamp(c, n) == IF c < 0 THEN 0 ELSE IF c > (n - 1) * Unit THEN (n - 1) * Unit ELSE c
SampleNearest(data, h, w, y, x) ==
    FlQ(WeightedSum(Neighbours(Clamp(y, h), Clamp(x, w), h, w), data), Unit)

\* the value sampled at (y, x): order-1 (bilinear) interpolation
Sample(data, h, w, y, x) ==
    IF Outside(y, h) \/ Outside(x, w) THEN 0
    ELSE FlQ(WeightedSum(Neighbours(y, x, h, w), data), Unit)

\* the pixels read for (y, x)
Reads(h, w, y, x) ==
    IF Outside(y, h) \/ Outside(x, w) THEN {}
    ELSE LET ns == Neighbours(y, x, h, w)
         IN  {<<ns[k][1], ns[k][2]>> : k \in 1 .. 4}

map_coordinates(input, coordinates) ==
    IF Cardinality(DOMAIN coordinates) # input.ndim
    THEN [raised |-> "RuntimeError", out |-> <<>>, reads |-> {}]
    ELSE LET h == input.shape[1]
             w == input.shape[2]
             ys == coordinates[0]
             xs == coordinates[1]
         IN  [raised |-> None,
              out |-> [i \in DOMAIN ys |-> [j \in DOMAIN ys[i] |->
                          Sample(input.data, h, w, ys[i][j], xs[i][j])]],
              reads |-> UNION {UNION {Reads(h, w, ys[i][j], xs[i][j]) :
                                         j \in DOMAIN ys[i]} : i \in DOMAIN ys}]

(***************************************************************************)
(* Bounds of the model                                                     *)
(***************************************************************************)
MaxH == 4
MaxW == 4
MaxImg == 2
MaxPix == 1
MaxCalls == 2

(***************************************************************************)
(* The dataset handed to OmniDataset (line 47): items (image, label).  The *)
(* images have every shape up to MaxImg by MaxImg; a two-dimensional image *)
(* alternates two pixel values, which gives every content of the images of *)
(* one or two pixels; an image with channels holds one value throughout.   *)
(***************************************************************************)
Channels == {3}

Images2D ==
    {[ndim |-> 2, shape |-> <<h, w>>,
      data |-> [i \in 0 .. h - 1 |-> [j \in 0 .. w - 1 |->
                   IF (i + j) % 2 = 0 THEN a ELSE b]]] :
        h \in 1 .. MaxImg, w \in 1 .. MaxImg, a \in 0 .. MaxPix, b \in 0 .. MaxPix}

Images3D ==
    {[ndim |-> 3, shape |-> <<h, w, c>>,
      data |-> [i \in 0 .. h - 1 |-> [j \in 0 .. w - 1 |-> [k \in 0 .. c - 1 |-> a]]]] :
        h \in 1 .. MaxImg, w \in 1 .. MaxImg, c \in Channels, a \in 0 .. MaxPix}

\* the items (image, label); the label of an image is taken to be its height
Dataset2D == {[img |-> im, label |-> im.shape[1]] : im \in Images2D}
Dataset3D == {[img |-> im, label |-> im.shape[1]] : im \in Images3D}

NoImage == [ndim |-> 0, shape |-> <<>>, data |-> <<>>]

(***************************************************************************)
(* State                                                                   *)
(***************************************************************************)
VARIABLES
    dataset,    \* OmniDataset.dataset, line 47: a sequence of items
    outshape,   \* OmniDataset.outshape, line 49
    fov,        \* OmniDataset.fov in degrees, line 48
    flip,       \* OmniDataset.flip, line 50
    h_rotate,   \* OmniDataset.h_rotate, line 51
    img_mean,   \* OmniDataset.img_mean, line 52: <<>> is None, <<m>> a mean
    img_std,    \* OmniDataset.img_std, line 53: <<>> is None, <<s>> a deviation
    call,       \* the last call made and its arguments
    uv,         \* the grid array: genuv's result, uv2img_idx's argument
    proj,       \* the frame of the last uv2img_idx call
    samp,       \* the result of the last map_coordinates call (x of line 65)
    ret,        \* what the last __getitem__ returned or raised
    ngenuv      \* how many times __getitem__ has had genuv build the grid

vars == <<dataset, outshape, fov, flip, h_rotate, img_mean, img_std,
          call, uv, proj, samp, ret, ngenuv>>

fields == <<dataset, outshape, fov, flip, h_rotate, img_mean, img_std>>

NoProj == [raised |-> None, uv |-> <<>>, locals |-> {}, x |-> <<>>, y |-> <<>>,
           ret |-> <<>>]
NoSamp == [raised |-> None, out |-> <<>>, reads |-> {}]
NoRet == [raised |-> None, x |-> <<>>, label |-> 0]

\* a call: its function, its arguments and the exception it raised, if any
Call(fn, h, w, u_fov, v_fov, img, raised) ==
    [fn |-> fn, h |-> h, w |-> w, u_fov |-> u_fov, v_fov |-> v_fov, img |-> img,
     raised |-> raised]

(***************************************************************************)
(* OmniDataset.__getitem__, lines 58-82                                    *)
(***************************************************************************)
\* line 62: self.fov * np.pi / 180
Radians(deg) == FDivI(FMulI(PI, deg), 180)

\* line 69: np.flip(x, axis=1)
Flip(x) ==
    [i \in DOMAIN x |-> [j \in DOMAIN x[i] |->
        x[i][Cardinality(DOMAIN x[i]) - 1 - j]]]

\* line 74: np.roll(x, dx, axis=1)
Roll(x, dx) ==
    [i \in DOMAIN x |-> [j \in DOMAIN x[i] |->
        x[i][(j - dx) % Cardinality(DOMAIN x[i])]]]

\* lines 77-80: x - self.img_mean, x / self.img_std
Normalize(x, mean, std) ==
    LET centred == IF mean = <<>> THEN x
                   ELSE [i \in DOMAIN x |-> [j \in DOMAIN x[i] |->
                            FAdd(x[i][j], -mean[1])]]
    IN  IF std = <<>> THEN centred
        ELSE [i \in DOMAIN centred |-> [j \in DOMAIN centred[i] |->
                 FDiv(centred[i][j], std[1])]]

\* lines 67-80 applied to the resampled array x of line 65
PostProcess(x, coin, dx) ==
    LET flipped == IF flip /\ coin = 0 THEN Flip(x) ELSE x
        rolled == IF h_rotate THEN Roll(flipped, dx) ELSE flipped
    IN  Normalize(rolled, img_mean, img_std)

\* coin and dx are the draws of np.random.randint, lines 68 and 73, made
\* when the option is on
GetItem(idx) ==
    LET item == dataset[idx + 1]
        img == item.img
        h == img.shape[1]
        w == img.shape[2]
        f == Radians(fov)
    IN  /\ ngenuv < MaxCalls
        /\ ngenuv' = ngenuv + 1
        /\ proj' = uv2img_idx(genuv(outshape[1], outshape[2]), h, w, f, f)
        /\ uv' = proj'.uv
        /\ samp' = IF proj'.raised = None THEN map_coordinates(img, proj'.ret)
                   ELSE NoSamp
        /\ \E coin \in (IF flip THEN {0, 1} ELSE {0}),
              dx \in (IF h_rotate THEN 0 .. outshape[2] - 1 ELSE {0}) :
              ret' = IF proj'.raised # None
                     THEN [NoRet EXCEPT !.raised = proj'.raised]
                     ELSE IF samp'.raised # None
                          THEN [NoRet EXCEPT !.raised = samp'.raised]
                     ELSE [raised |-> None,
                           x |-> PostProcess(samp'.out, coin, dx),
                           label |-> item.label]
        /\ call' = Call("__getitem__", h, w, f, f, img, ret'.raised)
        /\ UNCHANGED fields

\* the constructor's arguments, line 39: the field of view in degrees, the
\* augmentation either all off (the defaults) or all on, and a dataset of
\* one item
FovDegrees == {90, 120, 200}
Augment ==
    {[flip |-> FALSE, h_rotate |-> FALSE, img_mean |-> <<>>, img_std |-> <<>>],
     [flip |-> TRUE, h_rotate |-> TRUE, img_mean |-> <<Unit \div 2>>,
      img_std |-> <<2 * Unit>>]}

\* the state after OmniDataset.__init__, lines 39-53
Init ==
    /\ \/ dataset \in {<<it>> : it \in Dataset2D}
       \/ dataset \in {<<it>> : it \in Dataset3D}
    /\ outshape \in (1 .. MaxH) \X (1 .. MaxW)
    /\ fov \in FovDegrees
    /\ \E a \in Augment :
          /\ flip = a.flip
          /\ h_rotate = a.h_rotate
          /\ img_mean = a.img_mean
          /\ img_std = a.img_std
    /\ call = Call("__init__", 0, 0, 0, 0, NoImage, None)
    /\ uv = <<>>
    /\ proj = NoProj
    /\ samp = NoSamp
    /\ ret = NoRet
    /\ ngenuv = 0

Next == \E idx \in 0 .. Len(dataset) - 1 : GetItem(idx)

Spec == Init /\ [][Next]_vars

(***************************************************************************)
(* The two functions called on their own, with arguments of any sign       *)
(***************************************************************************)
\* fields of view in radians: 0, 90 and 120 degrees, np.pi, 3.5, -90 degrees
Fovs == {0, Radians(90), Radians(120), PI, 7 * (Unit \div 2), -Radians(90)}

\* heights and widths of the source image
ImgShapes == {<<h, MaxImg + 1 - h>> : h \in 1 .. MaxImg}

\* genuv has no check and no operation that raises: on an empty arange every
\* elementwise operation, the division by h or w included, has nothing to do
CallGenuv(h, w) ==
    /\ call' = Call("genuv", h, w, 0, 0, NoImage, None)
    /\ uv' = genuv(h, w)
    /\ proj' = NoProj
    /\ UNCHANGED <<fields, samp, ret, ngenuv>>

CallUv2ImgIdx(h, w, u_fov, v_fov) ==
    /\ call.fn # "__init__"
    /\ proj' = uv2img_idx(uv, h, w, u_fov, v_fov)
    /\ uv' = proj'.uv
    /\ call' = Call("uv2img_idx", h, w, u_fov, v_fov, NoImage, proj'.raised)
    /\ UNCHANGED <<fields, samp, ret, ngenuv>>

\* the defaults of OmniDataset.__init__, line 39
InitFn ==
    /\ dataset = <<>>
    /\ outshape = <<60, 60>>
    /\ fov = 120
    /\ flip = FALSE
    /\ h_rotate = FALSE
    /\ img_mean = <<>>
    /\ img_std = <<>>
    /\ call = Call("__init__", 0, 0, 0, 0, NoImage, None)
    /\ uv = <<>>
    /\ proj = NoProj
    /\ samp = NoSamp
    /\ ret = NoRet
    /\ ngenuv = 0

NextFn ==
    \/ \E h \in -1 .. MaxH, w \in -1 .. MaxW : CallGenuv(h, w)
    \/ \E hw \in ImgShapes, u_fov \in Fovs, v_fov \in Fovs :
           CallUv2ImgIdx(hw[1], hw[2], u_fov, v_fov)

SpecFn == InitFn /\ [][NextFn]_vars

(***************************************************************************)
(* Properties                                                              *)
(***************************************************************************)
\* the cell (i, j) of the last projection holds the pair (-100, -100)
SentinelAt(i, j) == proj.ret[0][i][j] = Sentinel /\ proj.ret[1][i][j] = Sentinel

\* the coordinate of cell (i, j) lies outside [0, h-1] x [0, w-1]
OutsideAt(i, j) ==
    \/ proj.ret[0][i][j] < 0
    \/ proj.ret[0][i][j] > (call.h - 1) * Unit
    \/ proj.ret[1][i][j] < 0
    \/ proj.ret[1][i][j] > (call.w - 1) * Unit

\* the last call was a __getitem__ that reached the resampling of line 65
Resampled ==
    call.fn = "__getitem__" /\ proj.raised = None /\ samp.raised = None

\* every pixel of the (two-dimensional) image im equals c
Constant(im, c) ==
    \A i \in DOMAIN im.data : \A j \in DOMAIN im.data[i] : im.data[i][j] = c

\* C1: uv2img_idx rejects every field of view not strictly inside (0, pi)
\* with an error raised before x or y is assigned and with nothing returned,
\* and accepts every pair of angles strictly inside (0, pi).
C1_FovRejected ==
    call.fn = "uv2img_idx" =>
        LET bad == \/ call.u_fov <= 0
                   \/ call.u_fov >= PI
                   \/ call.v_fov <= 0
                   \/ call.v_fov >= PI
        IN  /\ bad => /\ call.raised = "AssertionError"
                      /\ proj.locals = {}
                      /\ DOMAIN proj.ret = {}
            /\ ~bad => /\ call.raised = None
                       /\ DOMAIN proj.ret = 0 .. 1

\* a call with u_fov accepted and v_fov = pi was rejected
C1_Witness ==
    /\ call.fn = "uv2img_idx"
    /\ call.u_fov = Radians(90)
    /\ call.v_fov = PI
    /\ call.raised = "AssertionError"
    /\ DOMAIN uv # {}

\* C2: a cell of the returned index holds (-100, -100) in both coordinates
\* exactly when u < -u_fov/2 or u > u_fov/2 or v < -v_fov/2 or v > v_fov/2;
\* every other cell, the boundary included, holds its computed coordinates.
C2_SentinelIffOutside ==
    (call.fn = "uv2img_idx" /\ call.raised = None) =>
        \A i \in DOMAIN uv : \A j \in DOMAIN uv[i] :
            LET u == uv[i][j][1]
                v == uv[i][j][2]
                out == \/ 2 * u < -call.u_fov
                       \/ 2 * u > call.u_fov
                       \/ 2 * v < -call.v_fov
                       \/ 2 * v > call.v_fov
            IN  /\ SentinelAt(i, j) <=> out
                /\ ~out => /\ proj.ret[0][i][j] = ProjY(u, v, call.h, call.v_fov)
                           /\ proj.ret[1][i][j] = ProjX(u, call.w, call.u_fov)

\* a cell exactly on the half-extent kept its coordinates, another was masked
C2_Witness ==
    /\ call.fn = "uv2img_idx"
    /\ call.raised = None
    /\ \E i \in DOMAIN uv : \E j \in DOMAIN uv[i] :
          /\ \/ Abs(2 * uv[i][j][1]) = call.u_fov
             \/ Abs(2 * uv[i][j][2]) = call.v_fov
          /\ ~SentinelAt(i, j)
    /\ \E i \in DOMAIN uv : \E j \in DOMAIN uv[i] : SentinelAt(i, j)

\* C3: every output cell whose coordinate lies outside [0, h-1] x [0, w-1]
\* (the sentinel included) has the value 0 whatever the image holds, and
\* only pixels inside the image are read.
C3_OutsideIsZero ==
    Resampled =>
        /\ DOMAIN samp.out = DOMAIN proj.ret[0]
        /\ \A i \in DOMAIN samp.out :
              /\ DOMAIN samp.out[i] = DOMAIN proj.ret[0][i]
              /\ \A j \in DOMAIN samp.out[i] :
                    OutsideAt(i, j) => samp.out[i][j] = 0
        /\ samp.reads \subseteq (0 .. call.h - 1) \X (0 .. call.w - 1)

\* an image without a zero pixel: a masked cell, an unmasked cell outside the
\* image and a cell that was sampled
C3_Witness ==
    /\ Resampled
    /\ \A i \in DOMAIN call.img.data : \A j \in DOMAIN call.img.data[i] :
          call.img.data[i][j] > 0
    /\ \E i \in DOMAIN samp.out : \E j \in DOMAIN samp.out[i] : SentinelAt(i, j)
    /\ \E i \in DOMAIN samp.out : \E j \in DOMAIN samp.out[i] :
          ~SentinelAt(i, j) /\ OutsideAt(i, j)
    /\ \E i \in DOMAIN samp.out : \E j \in DOMAIN samp.out[i] : samp.out[i][j] > 0

\* C4: genuv called with h <= 0 or w <= 0 fails and returns no grid.
C4_NonPositiveRejected ==
    (call.fn = "genuv" /\ (call.h <= 0 \/ call.w <= 0)) => call.raised # None

\* the rounding of the three operations of lines 16 and 17, none of whose
\* results exceeds 2 pi in size
RoundTol == 3 * ((2 * PI) \div (2^MantBits))

\* C5: for H, W >= 1 genuv gives H rows of W pairs (u, v); u depends on the
\* column j alone, is (j + 0.5) 2 pi / W - pi to within rounding, lies in
\* (-pi, pi] and grows with j; v depends on the row i alone, is
\* (i + 0.5) pi / H - pi/2 to within rounding, lies in (-pi/2, pi/2] and grows
\* with i.
C5_Grid ==
    (call.fn = "genuv" /\ call.h >= 1 /\ call.w >= 1) =>
        /\ DOMAIN uv = 0 .. call.h - 1
        /\ \A i \in DOMAIN uv :
              /\ DOMAIN uv[i] = 0 .. call.w - 1
              /\ \A j \in DOMAIN uv[i] :
                    LET u == uv[i][j][1]
                        v == uv[i][j][2]
                    IN  /\ Len(uv[i][j]) = 2
                        /\ u = uv[0][j][1]
                        /\ v = uv[i][0][2]
                        /\ Abs(call.w * u - (2 * j + 1 - call.w) * PI)
                               <= call.w * RoundTol
                        /\ Abs(2 * call.h * v - (2 * i + 1 - call.h) * PI)
                               <= 2 * call.h * RoundTol
                        /\ -PI < u /\ u <= PI
                        /\ -PI < 2 * v /\ 2 * v <= PI
                        /\ j > 0 => uv[i][j - 1][1] < u
                        /\ i > 0 => uv[i - 1][j][2] < v

\* a grid with more columns than rows, and more than one of each
C5_Witness ==
    /\ call.fn = "genuv"
    /\ call.h = 2
    /\ call.w = 3
    /\ Cardinality(DOMAIN uv) * Cardinality(DOMAIN uv[0]) = 6

\* C6: with u_fov = v_fov the valid cells are symmetric: cell (i, j) is
\* masked exactly when cell (H-1-i, W-1-j) is.
C6_Symmetric ==
    (call.fn = "__getitem__" /\ proj.raised = None) =>
        \A i \in DOMAIN uv : \A j \in DOMAIN uv[i] :
            SentinelAt(i, j) <=>
                SentinelAt(outshape[1] - 1 - i, outshape[2] - 1 - j)

\* C7 as stated: a constant image gives its constant at every cell that is
\* not masked.
C7_ConstantEverywhere ==
    (Resampled /\ call.img.ndim = 2) =>
        \A c \in 0 .. MaxPix :
            Constant(call.img, c) =>
                \A i \in DOMAIN samp.out : \A j \in DOMAIN samp.out[i] :
                    ~SentinelAt(i, j) => samp.out[i][j] = c * Unit

\* C7 amended: a constant image gives its constant at every unmasked cell
\* whose coordinate lies inside [0, h-1] x [0, w-1], and 0 at every unmasked
\* cell whose coordinate lies outside.
C7_ConstantInside ==
    (Resampled /\ call.img.ndim = 2) =>
        \A c \in 0 .. MaxPix :
            Constant(call.img, c) =>
                \A i \in DOMAIN samp.out : \A j \in DOMAIN samp.out[i] :
                    ~SentinelAt(i, j) =>
                        samp.out[i][j] = IF OutsideAt(i, j) THEN 0 ELSE c * Unit

\* a constant image of ones: a cell interpolated between four pixels, and an
\* unmasked cell outside the image
C7_Witness ==
    /\ Resampled
    /\ call.img.ndim = 2
    /\ Constant(call.img, 1)
    /\ \E i \in DOMAIN samp.out : \E j \in DOMAIN samp.out[i] :
          /\ ~OutsideAt(i, j)
          /\ proj.ret[0][i][j] % Unit # 0
          /\ proj.ret[1][i][j] % Unit # 0
          /\ samp.out[i][j] = Unit
    /\ \E i \in DOMAIN samp.out : \E j \in DOMAIN samp.out[i] :
          ~SentinelAt(i, j) /\ OutsideAt(i, j) /\ samp.out[i][j] = 0

\* C8: an image (h, w, c) is resampled to an array (H, W, c), an image
\* (h, w) to an array (H, W).
C8_Channels ==
    (call.fn = "__getitem__" /\ proj.raised = None) =>
        /\ call.raised = None
        /\ DOMAIN ret.x = 0 .. outshape[1] - 1
        /\ \A i \in DOMAIN ret.x :
              /\ DOMAIN ret.x[i] = 0 .. outshape[2] - 1
              /\ call.img.ndim = 3 =>
                    \A j \in DOMAIN ret.x[i] :
                        DOMAIN ret.x[i][j] = 0 .. call.img.shape[3] - 1

\* C9: over any sequence of __getitem__ calls the grid of the dataset's
\* outshape is built at most once.
C9_GridBuiltOnce == ngenuv <= 1

\* C10: a call of uv2img_idx, accepted or rejected, leaves the grid it was
\* given as it was, and a call that repeats the arguments of the call before
\* it returns the same index.
C10_NoSideEffect ==
    [][call'.fn = "uv2img_idx" =>
          /\ uv' = uv
          /\ (/\ call.fn = "uv2img_idx"
              /\ call'.h = call.h
              /\ call'.w = call.w
              /\ call'.u_fov = call.u_fov
              /\ call'.v_fov = call.v_fov) => proj'.ret = proj.ret]_vars

\* an accepted call wrote the sentinel, and the grid holds none
C10_Witness ==
    /\ call.fn = "uv2img_idx"
    /\ call.raised = None
    /\ \E i \in DOMAIN uv : \E j \in DOMAIN uv[i] :
          SentinelAt(i, j) /\ uv[i][j][1] # Sentinel /\ uv[i][j][2] # Sentinel
====
